---------------------------- MODULE Spec2Model ----------------------------
(***************************************************************************)
(* A state-machine model of the kv server: the sled storage backend, the   *)
(* command dispatcher with its hook pipeline (Service::execute), the       *)
(* pub/sub broadcaster and the per-connection loop.                        *)
(*                                                                         *)
(* Strings that the code concatenates (table names, keys) are sequences of *)
(* one-character strings, so that "table:key" is a real concatenation.     *)
(***************************************************************************)
EXTENDS Integers, Sequences, FiniteSets, TLC

VARIABLES
    mode,        \* which workload this behaviour runs ("kv" or "pubsub")
    hooks,       \* ServiceInner's four hook lists, fixed at construction
    store,       \* per storage object: the sled tree, flat key (byte string) -> encoded value
    latest,      \* history: per logical (table, key), the last set not undone by a del
    pc,          \* per connection: where its task stands
    req,         \* per connection: the request being processed
    resp,        \* per connection: the item of a stream::once not yet yielded
    trace,       \* per connection: the events of the current request, in order
    wire,        \* per connection: the frames written for the current request
    budget,      \* requests the connections may still read
    inbox,       \* per connection: requests the client has written, not yet read
    topics,      \* per Broadcaster object: topic -> set of subscription ids
    subs,        \* per Broadcaster object: the subscription table, id -> queue (sender end)
    queue,       \* the bounded outbound queues, named by the connection that reads them
    rxDropped,   \* per queue: the consumer end has been dropped
    nextId,      \* per Broadcaster object: the id counter
    myId,        \* per connection: the id of the subscribe call / stream it holds
    targets,     \* per connection: ids a running publish has still to try
    pubIdx,      \* per connection: the index of the publish it is running
    pubCalled,   \* history: number of publish calls started
    pubDone,     \* history: the publish calls that have returned
    pubBefore,   \* history: per publish call, the calls that had returned when it started
    unsubAt,     \* history: per queue, the publish calls started when its subscription
                 \* was unsubscribed (-1: it has not been)
    dropped,     \* history: the (publish call, queue) pairs whose enqueue found the queue full
    cleaned,     \* history: the queues a publish found closed and cleaned up
    wbuf,        \* ProstStream: the write buffer
    written,     \* ProstStream: how many bytes of wbuf the stream has accepted
    rbuf,        \* ProstStream: the read buffer
    pipe,        \* the byte stream: bytes written to it and not yet read from it
    outBytes,    \* history: every byte the stream has accepted, in order
    closed,      \* the byte stream has been shut down by the writing side
    posted,      \* history: the messages handed to start_send, in order
    items,       \* history: the items poll_next has yielded, in order
    early,       \* history: poll_next has run before a send was complete
    polled,      \* history: the ways calls of poll_next have ended so far
    closing,     \* poll_close has been called on the ProstStream
    keyFile,     \* the server's key file: the kinds of its PEM sections
    srvClientCa, \* the server is given a client CA certificate
    keyOut,      \* what load_key returned for the key file
    mainPc,      \* where server.rs's main is
    cur,         \* the client whose handshake main is awaiting
    cli          \* the clients of the TLS workload

vars == << mode, hooks, store, latest, pc, req, resp, trace, wire, budget, inbox,
           topics, subs, queue, rxDropped, nextId, myId, targets, pubIdx,
           pubCalled, pubDone, pubBefore, unsubAt, dropped, cleaned,
           wbuf, written, rbuf, pipe, outBytes, closed, posted, items, early, polled, closing,
           keyFile, srvClientCa, keyOut, mainPc, cur, cli >>

kvVars == << store, latest >>
topicVars == << topics, subs, queue, rxDropped, nextId >>
pubVars == << pubCalled, pubDone, pubBefore, unsubAt, dropped, cleaned >>
frameVars == << wbuf, written, rbuf, pipe, outBytes, closed, posted, items, early, polled, closing >>
tlsVars == << keyFile, srvClientCa, keyOut, mainPc, cur, cli >>
svcVars == << mode, hooks, store, latest, pc, req, resp, trace, wire, budget, inbox,
              topics, subs, queue, rxDropped, nextId, myId, targets, pubIdx,
              pubCalled, pubDone, pubBefore, unsubAt, dropped, cleaned >>

-----------------------------------------------------------------------------
(* Bounds of the model *)

\* requests the clients send in one behaviour
MaxReqs == 3
\* the largest value of the id counter (2^32 - 1 in the program, scaled down)
MaxId == 2
\* requests the connections read in one behaviour of the pipelining workload
MaxPipelined == 4
\* PEM sections in a key file
MaxKeyItems == 2
\* messages sent through the ProstStream in one behaviour
MaxFrames == 2
\* payload length above which a frame is compressed (1436 in the program, scaled down)
CompressionLimit == 4
\* publish calls in one behaviour
MaxPub == 2
\* capacity of a subscriber's outbound queue (128 in the program, scaled down)
Capacity == 1

-----------------------------------------------------------------------------
(* Values, requests, responses: src/pb/mod.rs *)

DefaultValue == [tag |-> "None", val |-> 0]
StringValue(n) == [tag |-> "String", val |-> n]
IntegerValue(n) == [tag |-> "Integer", val |-> n]
BoolValue(b) == [tag |-> "Bool", val |-> IF b THEN 1 ELSE 0]

\* Option<Value>
None == [some |-> FALSE, v |-> DefaultValue]
Some(x) == [some |-> TRUE, v |-> x]
unwrap_or_default(o) == IF o.some THEN o.v ELSE DefaultValue

\* the protobuf field number of each arm of Value's oneof
TagNumber(tag) ==
    CASE tag = "String" -> 1
      [] tag = "Binary" -> 2
      [] tag = "Integer" -> 3
      [] tag = "Float" -> 4
      [] tag = "Bool" -> 5

TagOfNumber(n) ==
    CASE n = 1 -> "String"
      [] n = 2 -> "Binary"
      [] n = 3 -> "Integer"
      [] n = 4 -> "Float"
      [] n = 5 -> "Bool"

\* TryFrom<Value> for Vec<u8>: a value with no arm set encodes to no bytes
EncodeValue(v) == IF v.tag = "None" THEN << >> ELSE << TagNumber(v.tag), v.val >>

\* TryFrom<&[u8]> for Value
DecodeValue(data) ==
    IF data = << >> THEN DefaultValue
    ELSE [tag |-> TagOfNumber(data[1]), val |-> data[2]]

Kvpair(key, value) == [key |-> key, value |-> value]

NoStr == << >>

Request(type, table, key, value, keys, topic, id, data) ==
    [type |-> type, table |-> table, key |-> key, value |-> value, keys |-> keys,
     topic |-> topic, id |-> id, data |-> data]

new_hget(table, key) == Request("Hget", table, key, DefaultValue, << >>, NoStr, 0, << >>)
new_hgetall(table) == Request("Hgetall", table, NoStr, DefaultValue, << >>, NoStr, 0, << >>)
new_hset(table, key, value) == Request("Hset", table, key, value, << >>, NoStr, 0, << >>)
new_hdel(table, key) == Request("Hdel", table, key, DefaultValue, << >>, NoStr, 0, << >>)
new_hexist(table, key) == Request("Hexist", table, key, DefaultValue, << >>, NoStr, 0, << >>)
new_hmget(table, keys) == Request("Hmget", table, NoStr, DefaultValue, keys, NoStr, 0, << >>)
new_hmset(table, keys, value) == Request("Hmset", table, NoStr, value, keys, NoStr, 0, << >>)
new_hmdel(table, keys) == Request("Hmdel", table, NoStr, DefaultValue, keys, NoStr, 0, << >>)
new_hmexist(table, keys) == Request("Hmexist", table, NoStr, DefaultValue, keys, NoStr, 0, << >>)
new_subscribe(name) == Request("Subscribe", NoStr, NoStr, DefaultValue, << >>, name, 0, << >>)
new_unsubscribe(name, id) == Request("Unsubscribe", NoStr, NoStr, DefaultValue, << >>, name, id, << >>)
new_publish(name, data) == Request("Publish", NoStr, NoStr, DefaultValue, << >>, name, 0, data)
\* a CommandRequest whose request_data is None
NoRequestData == Request("None", NoStr, NoStr, DefaultValue, << >>, NoStr, 0, << >>)

StatusOk == 200
StatusCreated == 201
StatusBadRequest == 400
StatusNotFound == 404
StatusInternal == 500

Response(status, message, values, pairs) ==
    [status |-> status, message |-> message, values |-> values, pairs |-> pairs]

\* CommandResponse::default()
DefaultResponse == Response(0, "", << >>, << >>)
\* CommandResponse::ok()
ResponseOk == Response(StatusOk, "", << >>, << >>)
\* From<Value> for CommandResponse
FromValue(v) == Response(StatusOk, "", << v >>, << >>)
\* From<Vec<Value>> for CommandResponse
FromValues(vs) == Response(StatusOk, "", vs, << >>)
\* From<Vec<Kvpair>> for CommandResponse
FromPairs(ps) == Response(StatusOk, "", << >>, ps)

\* the variants of KvError that the sources construct or match
ErrorKinds == { "NotFound", "InvalidCommand", "ConvertError", "Internal",
                "CertifcateParseError" }

\* e.to_string(): the text of an error
to_string(kind) ==
    CASE kind = "NotFound" -> "Not found"
      [] kind = "InvalidCommand" -> "Invalid command"
      [] kind = "ConvertError" -> "Cannot convert value"
      [] kind = "CertifcateParseError" -> "Failed to parse certificate"
      [] kind = "Internal" -> "Internal error"

FromKvError_NoBadRequest(kind) ==
    Response(IF kind = "NotFound" THEN StatusNotFound ELSE StatusInternal,
             to_string(kind), << >>, << >>)

\* From<KvError> for CommandResponse: the message is the error's text
FromKvError(kind) ==
    Response(CASE kind = "NotFound" -> StatusNotFound
               [] kind = "InvalidCommand" -> StatusBadRequest
               [] OTHER -> StatusInternal,
             to_string(kind), << >>, << >>)


-----------------------------------------------------------------------------
(* The sled backend: src/storage/sleddb.rs *)

Sep == ":"

Tables == { << "a" >>, << "a", ":", "b" >> }
Keys == { << "c" >>, << "b", ":", "c" >> }
StoredValues == { DefaultValue, StringValue(1) }

EmptyDb == [name \in {} |-> << >>]

get_full_key_NoSeparator(table, key) == table \o key

\* SledDb::get_full_key: format!("{}:{}", table, key)
get_full_key(table, key) == table \o << Sep >> \o key

\* SledDb::get_table_prefix: format!("{}:", table)
get_table_prefix(table) == table \o << Sep >>

\* sled's Tree::insert, with the previous bytes it returns
TreeInsert(db, name, data) ==
    [x \in DOMAIN db \cup {name} |-> IF x = name THEN data ELSE db[x]]

\* sled's Tree::remove
TreeRemove(db, name) == [x \in DOMAIN db \ {name} |-> db[x]]

\* Storage::get for SledDb
SledGet(db, table, key) ==
    LET name == get_full_key(table, key)
    IN  IF name \in DOMAIN db THEN Some(DecodeValue(db[name])) ELSE None

SledSet_ReturnsNew(db, table, key, value) ==
    LET name == get_full_key(table, key)
    IN  [db |-> TreeInsert(db, name, EncodeValue(value)), ret |-> Some(value)]

\* Storage::set for SledDb: returns the previous value
SledSet(db, table, key, value) ==
    LET name == get_full_key(table, key)
        data == EncodeValue(value)
    IN  [db |-> TreeInsert(db, name, data),
         ret |-> IF name \in DOMAIN db THEN Some(DecodeValue(db[name])) ELSE None]

\* Storage::contains for SledDb
SledContains(db, table, key) == get_full_key(table, key) \in DOMAIN db

\* Storage::del for SledDb: returns the removed value
SledDel(db, table, key) ==
    LET name == get_full_key(table, key)
    IN  [db |-> TreeRemove(db, name),
         ret |-> IF name \in DOMAIN db THEN Some(DecodeValue(db[name])) ELSE None]

IsPrefix(p, s) == Len(p) <= Len(s) /\ SubSeq(s, 1, Len(p)) = p

\* byte order of the characters the model uses
CharCode(ch) ==
    CASE ch = ":" -> 58
      [] ch = "a" -> 97
      [] ch = "b" -> 98
      [] ch = "c" -> 99

RECURSIVE LexLess(_, _)
LexLess(s, t) ==
    IF t = << >> THEN FALSE
    ELSE IF s = << >> THEN TRUE
    ELSE IF CharCode(Head(s)) # CharCode(Head(t))
         THEN CharCode(Head(s)) < CharCode(Head(t))
         ELSE LexLess(Tail(s), Tail(t))

\* sled iterates a tree in the byte order of its keys
RECURSIVE InKeyOrder(_)
InKeyOrder(names) ==
    IF names = {} THEN << >>
    ELSE LET first == CHOOSE n \in names : \A m \in names \ {n} : LexLess(n, m)
         IN  << first >> \o InKeyOrder(names \ {first})

\* sled's Tree::scan_prefix: the flat keys that start with the prefix, in order
ScanPrefix(db, prefix) == InKeyOrder({ n \in DOMAIN db : IsPrefix(prefix, n) })

RECURSIVE UpToSep(_)
UpToSep(s) ==
    IF s = << >> \/ Head(s) = Sep THEN << >> ELSE << Head(s) >> \o UpToSep(Tail(s))

RECURSIVE AfterSep(_)
AfterSep(s) ==
    IF s = << >> THEN << >>
    ELSE IF Head(s) = Sep THEN Tail(s) ELSE AfterSep(Tail(s))

\* ivec_to_key: the second piece of s.split(":")
ivec_to_key(ivec) == UpToSep(AfterSep(ivec))

\* From<Result<(IVec, IVec), sled::Error>> for Kvpair
KvpairFromIVec(k, v) == Kvpair(ivec_to_key(k), DecodeValue(v))

\* Storage::get_all for SledDb
SledGetAll(db, table) ==
    LET names == ScanPrefix(db, get_table_prefix(table))
    IN  [i \in 1..Len(names) |-> KvpairFromIVec(names[i], db[names[i]])]

-----------------------------------------------------------------------------
(* The command handlers (CommandService::execute of each request type).    *)
(* Each returns the response and the store it leaves.                      *)

Handled(res, db) == [res |-> res, db |-> db]

HgetExecute(cmd, db) ==
    LET got == SledGet(db, cmd.table, cmd.key)
    IN  Handled(IF got.some THEN FromValue(got.v) ELSE FromKvError("NotFound"), db)

HsetExecute(cmd, db) ==
    LET out == SledSet(db, cmd.table, cmd.key, cmd.value)
    IN  Handled(FromValue(unwrap_or_default(out.ret)), out.db)

HdelExecute(cmd, db) ==
    LET out == SledDel(db, cmd.table, cmd.key)
    IN  Handled(IF out.ret.some THEN FromValue(out.ret.v) ELSE FromKvError("NotFound"),
                out.db)

HexistExecute(cmd, db) ==
    Handled(FromValue(BoolValue(SledContains(db, cmd.table, cmd.key))), db)

HgetallExecute(cmd, db) == Handled(FromPairs(SledGetAll(db, cmd.table)), db)

\* one key of an HMGET / HMSET / HMDEL / HMEXIST: the value it yields, the store it leaves
PerKey(type, db, table, key, value) ==
    CASE type = "Hmget" ->
            [v |-> unwrap_or_default(SledGet(db, table, key)), db |-> db]
      [] type = "Hmset" ->
            LET out == SledSet(db, table, key, value)
            IN  [v |-> unwrap_or_default(out.ret), db |-> out.db]
      [] type = "Hmdel" ->
            LET out == SledDel(db, table, key)
            IN  [v |-> unwrap_or_default(out.ret), db |-> out.db]
      [] type = "Hmexist" ->
            [v |-> BoolValue(SledContains(db, table, key)), db |-> db]

RECURSIVE PerKeys(_, _, _, _, _)
PerKeys(type, db, table, keys, value) ==
    IF keys = << >> THEN [values |-> << >>, db |-> db]
    ELSE LET one == PerKey(type, db, table, Head(keys), value)
             rest == PerKeys(type, one.db, table, Tail(keys), value)
         IN  [values |-> << one.v >> \o rest.values, db |-> rest.db]

HmExecute(cmd, db) ==
    LET out == PerKeys(cmd.type, db, cmd.table, cmd.keys, cmd.value)
    IN  Handled(FromValues(out.values), out.db)

-----------------------------------------------------------------------------
(* Service: src/service/mod.rs *)

UnaryTypes == { "Hget", "Hset", "Hdel", "Hexist", "Hmget", "Hmset", "Hmdel",
                "Hmexist", "Hgetall" }
StreamTypes == { "Subscribe", "Unsubscribe", "Publish" }

dispatch_NoneFallsThrough(cmd, db) ==
    CASE cmd.type = "Hget" -> HgetExecute(cmd, db)
      [] cmd.type = "Hset" -> HsetExecute(cmd, db)
      [] cmd.type = "Hdel" -> HdelExecute(cmd, db)
      [] cmd.type = "Hexist" -> HexistExecute(cmd, db)
      [] cmd.type \in { "Hmget", "Hmset", "Hmdel", "Hmexist" } -> HmExecute(cmd, db)
      [] cmd.type = "Hgetall" -> HgetallExecute(cmd, db)
      [] OTHER -> Handled(DefaultResponse, db)

\* dispatch: the unary handlers; anything else gets the default response
dispatch(cmd, db) ==
    CASE cmd.type = "Hget" -> HgetExecute(cmd, db)
      [] cmd.type = "Hset" -> HsetExecute(cmd, db)
      [] cmd.type = "Hdel" -> HdelExecute(cmd, db)
      [] cmd.type = "Hexist" -> HexistExecute(cmd, db)
      [] cmd.type \in { "Hmget", "Hmset", "Hmdel", "Hmexist" } -> HmExecute(cmd, db)
      [] cmd.type = "Hgetall" -> HgetallExecute(cmd, db)
      [] cmd.type = "None" -> Handled(FromKvError("InvalidCommand"), db)
      [] OTHER -> Handled(DefaultResponse, db)

\* dispatch_stream: which Topic operation serves the request
dispatch_stream(cmd) ==
    CASE cmd.type = "Subscribe" -> "Subscribe"
      [] cmd.type = "Unsubscribe" -> "Unsubscribe"
      [] cmd.type = "Publish" -> "Publish"
      [] OTHER -> "unreachable"

\* the hook functions a service may register
CallMut(fn, res) ==
    CASE fn = "d" -> [res EXCEPT !.status = StatusCreated]
      [] fn = "bump" -> [res EXCEPT !.status = res.status + 1]

Event(ev, fn, status) == [ev |-> ev, fn |-> fn, status |-> status]

\* the event of dispatch returning: whether it returned the default response
Dispatched(res) ==
    Event("dispatch", IF res = DefaultResponse THEN "default" ELSE "handled", res.status)

\* Notify for Vec<fn(&Arg)>: every function, in order, sees the argument
Notify(list, ev, status) == [i \in 1..Len(list) |-> Event(ev, list[i], status)]

NotifyMut_Reversed(list, res) ==
    LET F[i \in 0..Len(list)] ==
            IF i = 0 THEN res ELSE CallMut(list[Len(list) + 1 - i], F[i - 1])
    IN  F[Len(list)]

\* NotifyMut for Vec<fn(&mut Arg)>: every function, in order, changes the argument
RECURSIVE NotifyMut(_, _)
NotifyMut(list, res) ==
    IF list = << >> THEN res ELSE NotifyMut(Tail(list), CallMut(Head(list), res))

\* the events of NotifyMut: each function with the status it was handed
RECURSIVE NotifyMutEvents(_, _)
NotifyMutEvents(list, res) ==
    IF list = << >> THEN << >>
    ELSE << Event("on_before_send", Head(list), res.status) >>
         \o NotifyMutEvents(Tail(list), CallMut(Head(list), res))

Executed(events, res, db, route) ==
    [events |-> events, res |-> res, db |-> db, route |-> route]

execute_HooksOnStream(cmd, db, h) ==
    LET out == dispatch(cmd, db)
        received == Notify(h.on_received, "on_received", 0)
                    \o << Dispatched(out.res) >>
    IN  Executed(received
                 \o Notify(h.on_executed, "on_executed", out.res.status)
                 \o NotifyMutEvents(h.on_before_send, out.res),
                 NotifyMut(h.on_before_send, out.res), out.db,
                 IF out.res = DefaultResponse THEN dispatch_stream(cmd) ELSE "once")

execute_BeforeSendFirst(cmd, db, h) ==
    LET out == dispatch(cmd, db)
        received == Notify(h.on_received, "on_received", 0)
                    \o << Dispatched(out.res) >>
        sent == NotifyMut(h.on_before_send, out.res)
    IN  IF out.res = DefaultResponse
        THEN Executed(received \o << Event("dispatch_stream", dispatch_stream(cmd), 0) >>,
                      DefaultResponse, out.db, dispatch_stream(cmd))
        ELSE Executed(received
                      \o NotifyMutEvents(h.on_before_send, out.res)
                      \o Notify(h.on_executed, "on_executed", sent.status),
                      sent, out.db, "once")

\* Service::execute
execute(cmd, db, h) ==
    LET out == dispatch(cmd, db)
        received == Notify(h.on_received, "on_received", 0)
                    \o << Dispatched(out.res) >>
    IN  IF out.res = DefaultResponse
        THEN Executed(received \o << Event("dispatch_stream", dispatch_stream(cmd), 0) >>,
                      DefaultResponse, out.db, dispatch_stream(cmd))
        ELSE Executed(received
                      \o Notify(h.on_executed, "on_executed", out.res.status)
                      \o NotifyMutEvents(h.on_before_send, out.res),
                      NotifyMut(h.on_before_send, out.res), out.db, "once")

\* ServiceInner::new(store) followed by fn_received / fn_executed / fn_before_send /
\* fn_after_send calls: the hook lists a service is built with
Hooks(r, e, b, a) ==
    [on_received |-> r, on_executed |-> e, on_before_send |-> b, on_after_send |-> a]

\* the objects a Service's two Arcs may point to
Refs == { 1, 2 }

\* From<ServiceInner> for Service: Arc::new(inner) and a new Broadcaster
ServiceFrom == [inner |-> 1, broadcaster |-> 1]

Clone_OwnObjects(s) == [inner |-> s.inner + 1, broadcaster |-> s.broadcaster + 1]

\* Clone for Service: Arc::clone of both fields, the same objects
Clone(s) == [inner |-> s.inner, broadcaster |-> s.broadcaster]

HookConfigs ==
    { Hooks(<< >>, << >>, << >>, << >>),
      Hooks(<< "closure", "b" >>, << "c" >>, << "d" >>, << "e" >>),
      Hooks(<< "b" >>, << "c" >>, << "d", "bump" >>, << "e" >>),
      Hooks(<< "b" >>, << "c" >>, << "bump", "d" >>, << "e" >>) }

-----------------------------------------------------------------------------
(* The broadcaster (Topic): subscribe, unsubscribe and publish, with the   *)
(* bounded per-subscriber queues.                                          *)

Topics == { << "t" >>, << "u" >> }
Ids == 1..MaxId
Conns == { "c1", "c2", "c3" }

\* the informational response that carries a subscription id
IdMessage(id) == FromValue(IntegerValue(id))

\* the response a publish enqueues
Payload(data) == FromValues(data)

\* the entry of the subscription table for an id that has none
NoQueue == "none"

\* the keys of a subscription table
Live(table) == { id \in Ids : table[id] # NoQueue }

\* the counter wraps to 1 on overflow
Wrap(n) == IF n > MaxId THEN 1 ELSE n

RECURSIVE FreshId(_, _)
\* the id allocator: the counter's value, skipping ids that are live
FreshId(counter, live) ==
    IF counter \in live THEN FreshId(Wrap(counter + 1), live) ELSE counter

TrySend_Overwrite(q, item) ==
    IF Len(q) >= Capacity THEN Append(SubSeq(q, 1, Len(q) - 1), item) ELSE Append(q, item)

TrySend_Front(q, item) ==
    IF Len(q) >= Capacity THEN q ELSE << item >> \o q

\* a non-blocking enqueue: a full queue drops the item
TrySend(q, item) ==
    IF Len(q) >= Capacity THEN q ELSE Append(q, item)

WithoutId_Nowhere(ts, id) == ts

\* removal of an id from every topic set
WithoutId(ts, id) == [t \in DOMAIN ts |-> ts[t] \ {id}]

Unsubscribe_AnyTopic(ts, table, topic, id) ==
    [topics |-> WithoutId(ts, id),
     subs |-> [table EXCEPT ![id] = NoQueue],
     existed |-> table[id] # NoQueue]

Unsubscribe_TopicOnly(ts, table, topic, id) ==
    [topics |-> [ts EXCEPT ![topic] = @ \ {id}],
     subs |-> table,
     existed |-> table[id] # NoQueue]

\* Topic::unsubscribe: removes id from the topic's set and from the table
Unsubscribe(ts, table, topic, id) ==
    [topics |-> [ts EXCEPT ![topic] = @ \ {id}],
     subs |-> [table EXCEPT ![id] = NoQueue],
     existed |-> table[id] # NoQueue]

-----------------------------------------------------------------------------
(* The requests the clients send *)

KeyLists == { << >>, << << "c" >>, << "b", ":", "c" >> >> }

UnaryRequests ==
    { new_hget(t, k) : t \in Tables, k \in Keys }
    \cup { new_hset(t, k, v) : t \in Tables, k \in Keys, v \in StoredValues }
    \cup { new_hdel(t, k) : t \in Tables, k \in Keys }
    \cup { new_hexist(t, k) : t \in Tables, k \in Keys }
    \cup { new_hgetall(t) : t \in Tables }
    \cup { new_hmget(<< "a" >>, ks) : ks \in KeyLists }
    \cup { new_hmset(<< "a" >>, ks, StringValue(1)) : ks \in KeyLists }
    \cup { new_hmdel(<< "a" >>, ks) : ks \in KeyLists }
    \cup { new_hmexist(<< "a" >>, ks) : ks \in KeyLists }
    \cup { NoRequestData }

\* the payload of the n-th publish call
PublishData(n) == << StringValue(n) >>

StreamRequests ==
    { new_subscribe(t) : t \in Topics }
    \cup { new_unsubscribe(t, id) : t \in Topics, id \in Ids }
    \cup { new_publish(t, PublishData(pubCalled + 1)) : t \in Topics }

\* a connection that has sent a request
Started(c) == trace[c] # << >>

\* the requests a client of the pipelining workload writes; the value of an HSET
\* tells which client sent it
PipelinedRequests(c) ==
    { new_subscribe(<< "t" >>), new_unsubscribe(<< "t" >>, 1),
      new_publish(<< "t" >>, PublishData(1)),
      new_hset(<< "a" >>, << "c" >>, StringValue(IF c = "c1" THEN 1 ELSE 2)),
      new_hget(<< "a" >>, << "c" >>) }

\* The request a connection reads next. In the key-value workload connection c1 sends
\* every kind of request and c2 is a subscriber of topic "t". In the pub/sub workload
\* every connection sends the streaming requests and one unary request; the
\* connections being alike, they are numbered in the order of their first requests.
\* In both, a request is read as it arrives. In the pipelining workload the clients
\* write ahead and the connection reads the oldest request of its inbox.
Requests(c) ==
    CASE mode = "kv" ->
            IF c = "c1"
            THEN UnaryRequests \cup { r \in StreamRequests : r.topic = << "t" >> }
            ELSE { new_subscribe(<< "t" >>) }
      [] mode = "pubsub" ->
            IF \/ c = "c1"
               \/ c = "c2" /\ Started("c1")
               \/ c = "c3" /\ Started("c2")
            THEN StreamRequests \cup { new_hget(<< "a" >>, << "c" >>) }
            ELSE {}
      [] mode = "conn" ->
            IF inbox[c] = << >> THEN {} ELSE { Head(inbox[c]) }

Active == IF mode = "pubsub" THEN Conns ELSE { "c1", "c2" }

\* the service handle a connection's task runs: the first holds the service itself (as
\* the main task of service_should_work), every other one a clone of it
Handle(c) == IF c = "c1" THEN ServiceFrom ELSE Clone(ServiceFrom)

\* the storage and the broadcaster behind a connection's handle
StoreOf(c) == store[Handle(c).inner]
B(c) == Handle(c).broadcaster

-----------------------------------------------------------------------------
(* TLS: network/security/tls.rs *)

\* the kinds of PEM section a key file may hold: a PKCS#8 key, a PKCS#1 RSA
\* key, a SEC1 EC key and a certificate
PemKinds == { "pkcs8", "rsa", "sec1", "cert" }

RECURSIVE SeqsUpTo(_, _)
\* the sequences over S of length at most n
SeqsUpTo(S, n) ==
    IF n = 0 THEN { << >> }
    ELSE LET shorter == SeqsUpTo(S, n - 1)
         IN  shorter \cup { Append(s, x) : s \in { t \in shorter : Len(t) = n - 1 }, x \in S }

\* the key files: the kinds of their sections, in file order
KeyFiles == SeqsUpTo(PemKinds, MaxKeyItems)

\* the positions of the sections of one kind, as rustls_pemfile's iterators
\* (pkcs8_private_keys, rsa_private_keys) yield them
SectionsOf(file, kind) == { i \in 1..Len(file) : file[i] = kind }

First(S) == CHOOSE i \in S : \A j \in S : i <= j

NoKey == [ok |-> FALSE, kind |-> "none", pos |-> 0]
Key(kind, pos) == [ok |-> TRUE, kind |-> kind, pos |-> pos]

\* load_key: the first PKCS#8 key of the file; without one, the first RSA key
\* of the file read again from the start; without one, CertifcateParseError
load_key(file) ==
    IF SectionsOf(file, "pkcs8") # {} THEN Key("pkcs8", First(SectionsOf(file, "pkcs8")))
    ELSE IF SectionsOf(file, "rsa") # {} THEN Key("rsa", First(SectionsOf(file, "rsa")))
    ELSE NoKey

\* TlsServerAcceptor::new with `.allow_unauthenticated()` on the verifier
ClientAuth_AllowUnauthenticated(client_ca) == IF client_ca THEN "optional" ELSE "none"

\* TlsServerAcceptor::new: with a client CA the verifier requires a certificate
ClientAuth(client_ca) == IF client_ca THEN "required" ELSE "none"

\* the name in the server's certificate, and another name
ServerDomain == "kvserver.acme.inc"
Domains == { "kvserver.acme.inc", "kvserver1.acme.inc" }

\* a client's identity: none, a certificate signed by the client CA, or one
\* signed by another CA
Identities == { "none", "signed", "foreign" }

Clients == { "k1", "k2" }

\* what the server's verifier makes of the certificate a client presents
VerifyClient(auth, identity) ==
    CASE auth = "none" -> TRUE
      [] auth = "optional" -> identity # "foreign"
      [] auth = "required" -> identity = "signed"

NoClient == [st |-> "idle", identity |-> "none", domain |-> ServerDomain, stalls |-> FALSE,
             connect |-> "none", accept |-> "none", read |-> "none"]

\* outside the TLS workload there is no key file and no client CA
NoTls == keyFile = << >> /\ srvClientCa = FALSE

-----------------------------------------------------------------------------
(* Initial states *)

InitCommon ==
    /\ store = [s \in Refs |-> EmptyDb]
    /\ latest = [p \in Tables \X Keys |-> None]
    /\ pc = [c \in Conns |-> "idle"]
    /\ req = [c \in Conns |-> NoRequestData]
    /\ resp = [c \in Conns |-> DefaultResponse]
    /\ trace = [c \in Conns |-> << >>]
    /\ wire = [c \in Conns |-> << >>]
    /\ inbox = [c \in Conns |-> << >>]
    /\ topics = [b \in Refs |-> [t \in Topics |-> {}]]
    /\ subs = [b \in Refs |-> [id \in Ids |-> NoQueue]]
    /\ queue = [c \in Conns |-> << >>]
    /\ rxDropped = [c \in Conns |-> FALSE]
    /\ nextId = [b \in Refs |-> 1]
    /\ myId = [c \in Conns |-> 0]
    /\ targets = [c \in Conns |-> {}]
    /\ pubIdx = [c \in Conns |-> 0]
    /\ pubCalled = 0
    /\ pubDone = {}
    /\ pubBefore = [n \in 1..MaxPub |-> {}]
    /\ unsubAt = [c \in Conns |-> -1]
    /\ dropped = {}
    /\ cleaned = {}
    /\ wbuf = << >>
    /\ written = 0
    /\ rbuf = << >>
    /\ pipe = << >>
    /\ outBytes = << >>
    /\ closed = FALSE
    /\ posted = << >>
    /\ items = << >>
    /\ early = FALSE
    /\ polled = {}
    /\ closing = FALSE
    /\ keyOut = NoKey
    /\ mainPc = "new"
    /\ cur = "k1"
    /\ cli = [k \in Clients |-> NoClient]

Init ==
    /\ mode = "kv"
    /\ hooks \in HookConfigs
    /\ budget = MaxReqs
    /\ InitCommon
    /\ NoTls

InitPubSub ==
    /\ mode = "pubsub"
    /\ hooks \in { h \in HookConfigs : h.on_before_send = << "d" >> }
    /\ budget = MaxReqs
    /\ InitCommon
    /\ NoTls

\* the service of server.rs: ServiceInner::new(store).into(), no hook registered
InitConn ==
    /\ mode = "conn"
    /\ hooks = Hooks(<< >>, << >>, << >>, << >>)
    /\ budget = MaxPipelined
    /\ InitCommon
    /\ NoTls

-----------------------------------------------------------------------------
(* Actions *)

\* the history of the logical keys: what the last set / del of exactly (table, key) left
Remember(cmd, h) ==
    LET Upd(hist, k, o) == [hist EXCEPT ![<< cmd.table, k >>] = o]
        OverKeys[i \in 0..Len(cmd.keys)] ==
            IF i = 0 THEN h
            ELSE Upd(OverKeys[i - 1], cmd.keys[i],
                     IF cmd.type = "Hmset" THEN Some(cmd.value) ELSE None)
    IN  CASE cmd.type = "Hset" -> Upd(h, cmd.key, Some(cmd.value))
          [] cmd.type = "Hdel" -> Upd(h, cmd.key, None)
          [] cmd.type \in { "Hmset", "Hmdel" } -> OverKeys[Len(cmd.keys)]
          [] OTHER -> h

CanRead_WhileStreaming(c) == pc[c] \in { "idle", "sub_stream" }

\* the connection loop may read its next request: the stream of the previous one
\* has ended
CanRead(c) == pc[c] = "idle"

\* the loop reads request r and calls execute, whose hooks and dispatch leave trace
\* out.events; a request that waited in the inbox leaves it
Begin(c, r, out) ==
    /\ inbox' = [inbox EXCEPT ![c] = IF @ = << >> THEN @ ELSE Tail(@)]
    /\ req' = [req EXCEPT ![c] = r]
    /\ trace' = [trace EXCEPT ![c] = out.events]
    /\ wire' = [wire EXCEPT ![c] = << >>]
    /\ budget' = budget - 1

\* the connection reads a request that execute answers with stream::once, or for
\* which dispatch_stream panics
ExecUnary(c, r) ==
    LET out == execute(r, StoreOf(c), hooks)
    IN  /\ CanRead(c) /\ budget > 0
        /\ out.route \in { "once", "unreachable" }
        /\ Begin(c, r, out)
        /\ store' = [store EXCEPT ![Handle(c).inner] = out.db]
        /\ latest' = Remember(r, latest)
        /\ resp' = [resp EXCEPT ![c] = out.res]
        /\ pc' = [pc EXCEPT ![c] = IF out.route = "once" THEN "once" ELSE "panicked"]
        /\ UNCHANGED << tlsVars, frameVars, mode, hooks, topicVars, myId, targets, pubIdx, pubVars >>

\* SUBSCRIBE: execute reaches Topic::subscribe, which first allocates the id and
\* creates the queue
ExecSubscribe(c, r) ==
    LET out == execute(r, StoreOf(c), hooks)
        id == FreshId(nextId[B(c)], Live(subs[B(c)]))
    IN  /\ CanRead(c) /\ budget > 0
        /\ out.route = "Subscribe"
        /\ Live(subs[B(c)]) # Ids
        /\ Begin(c, r, out)
        /\ nextId' = [nextId EXCEPT ![B(c)] = Wrap(id + 1)]
        /\ myId' = [myId EXCEPT ![c] = id]
        /\ queue' = [queue EXCEPT ![c] = << >>]
        /\ rxDropped' = [rxDropped EXCEPT ![c] = FALSE]
        /\ unsubAt' = [unsubAt EXCEPT ![c] = -1]
        /\ pc' = [pc EXCEPT ![c] = "sub_topic"]
        /\ UNCHANGED << tlsVars, frameVars, mode, hooks, kvVars, resp, topics, subs, targets, pubIdx,
                        pubCalled, pubDone, pubBefore, dropped, cleaned >>

\* subscribe: insert the id into the topic's subscriber set
SubInsertTopic(c) ==
    /\ pc[c] = "sub_topic"
    /\ topics' = [topics EXCEPT ![B(c)][req[c].topic] = @ \cup { myId[c] }]
    /\ pc' = [pc EXCEPT ![c] = "sub_table"]
    /\ UNCHANGED << tlsVars, frameVars, mode, hooks, inbox, kvVars, req, resp, trace, wire, budget, subs, queue,
                    rxDropped, nextId, myId, targets, pubIdx, pubVars >>

\* subscribe: insert (id, queue) into the subscription table
SubInsertTable(c) ==
    /\ pc[c] = "sub_table"
    /\ subs' = [subs EXCEPT ![B(c)][myId[c]] = c]
    /\ pc' = [pc EXCEPT ![c] = "sub_id"]
    /\ UNCHANGED << tlsVars, frameVars, mode, hooks, inbox, kvVars, req, resp, trace, wire, budget, topics, queue,
                    rxDropped, nextId, myId, targets, pubIdx, pubVars >>

\* subscribe: enqueue the id message and return the reader end as the stream
SubSendId(c) ==
    /\ pc[c] = "sub_id"
    /\ queue' = [queue EXCEPT ![c] = TrySend(@, IdMessage(myId[c]))]
    /\ pc' = [pc EXCEPT ![c] = "sub_stream"]
    /\ UNCHANGED << tlsVars, frameVars, mode, hooks, inbox, kvVars, req, resp, trace, wire, budget, topics, subs,
                    rxDropped, nextId, myId, targets, pubIdx, pubVars >>

\* UNSUBSCRIBE: execute reaches Topic::unsubscribe; the answer is a single response
ExecUnsubscribe(c, r) ==
    LET out == execute(r, StoreOf(c), hooks)
        un == Unsubscribe(topics[B(c)], subs[B(c)], r.topic, r.id)
    IN  /\ CanRead(c) /\ budget > 0
        /\ out.route = "Unsubscribe"
        /\ Begin(c, r, out)
        /\ topics' = [topics EXCEPT ![B(c)] = un.topics]
        /\ subs' = [subs EXCEPT ![B(c)] = un.subs]
        /\ resp' = [resp EXCEPT ![c] =
                        IF un.existed THEN ResponseOk ELSE FromKvError("NotFound")]
        /\ unsubAt' = IF un.existed
                       THEN [unsubAt EXCEPT ![subs[B(c)][r.id]] = pubCalled]
                       ELSE unsubAt
        /\ pc' = [pc EXCEPT ![c] = "once"]
        /\ UNCHANGED << tlsVars, frameVars, mode, hooks, kvVars, queue, rxDropped, nextId, myId, targets,
                        pubIdx, pubCalled, pubDone, pubBefore, dropped, cleaned >>

\* a publish that collects the ids of every topic
PublishTargets_AllTopics(ts, topic) == UNION { ts[t] : t \in DOMAIN ts }

\* Topic::publish: the ids subscribed to the topic at the time of the call; none
\* when the topic has no subscribers or does not exist
PublishTargets(ts, topic) == ts[topic]

\* PUBLISH: execute reaches Topic::publish, which first collects the topic's ids
ExecPublish(c, r) ==
    LET out == execute(r, StoreOf(c), hooks)
        n == pubCalled + 1
    IN  /\ CanRead(c) /\ budget > 0
        /\ out.route = "Publish"
        /\ n <= MaxPub
        /\ Begin(c, r, out)
        /\ targets' = [targets EXCEPT ![c] = PublishTargets(topics[B(c)], r.topic)]
        /\ pubIdx' = [pubIdx EXCEPT ![c] = n]
        /\ pubCalled' = n
        /\ pubBefore' = [pubBefore EXCEPT ![n] = pubDone]
        /\ pc' = [pc EXCEPT ![c] = "publishing"]
        /\ UNCHANGED << tlsVars, frameVars, mode, hooks, kvVars, resp, topicVars, myId, pubDone, unsubAt,
                        dropped, cleaned >>

\* publish: one delivery attempt; a closed queue makes the broadcaster clean the
\* subscription up
PubSend(c, id) ==
    /\ pc[c] = "publishing"
    /\ id \in targets[c]
    /\ targets' = [targets EXCEPT ![c] = @ \ {id}]
    /\ LET q == subs[B(c)][id]
       IN  IF q = NoQueue
           THEN UNCHANGED << topics, subs, queue, dropped, cleaned >>
           ELSE IF rxDropped[q]
           THEN /\ topics' = [topics EXCEPT ![B(c)] = WithoutId(@, id)]
                /\ subs' = [subs EXCEPT ![B(c)][id] = NoQueue]
                /\ cleaned' = cleaned \cup { q }
                /\ UNCHANGED << queue, dropped >>
           ELSE /\ queue' = [queue EXCEPT ![q] = TrySend(@, Payload(req[c].data))]
                /\ dropped' = IF Len(queue[q]) >= Capacity
                               THEN dropped \cup { << pubIdx[c], q >> }
                               ELSE dropped
                /\ UNCHANGED << topics, subs, cleaned >>
    /\ UNCHANGED << tlsVars, frameVars, mode, hooks, inbox, kvVars, pc, req, resp, trace, wire, budget, rxDropped,
                    nextId, myId, pubIdx, pubCalled, pubDone, pubBefore, unsubAt >>

\* publish returns once every attempt is made; the publisher is answered OK
PubReturn(c) ==
    /\ pc[c] = "publishing"
    /\ targets[c] = {}
    /\ pubDone' = pubDone \cup { pubIdx[c] }
    /\ resp' = [resp EXCEPT ![c] = ResponseOk]
    /\ pc' = [pc EXCEPT ![c] = "once"]
    /\ UNCHANGED << tlsVars, frameVars, mode, hooks, inbox, kvVars, req, trace, wire, budget, topicVars, myId,
                    targets, pubIdx, pubCalled, pubBefore, unsubAt, dropped, cleaned >>

\* the connection loop takes the item of a stream::once and writes its frame
SendOnce(c) ==
    /\ pc[c] = "once"
    /\ wire' = [wire EXCEPT ![c] = Append(@, resp[c])]
    /\ trace' = [trace EXCEPT ![c] = Append(@, Event("sent", "", resp[c].status))]
    /\ pc' = [pc EXCEPT ![c] = "idle"]
    /\ UNCHANGED << tlsVars, frameVars, mode, hooks, inbox, kvVars, req, resp, budget, topicVars, myId, targets,
                    pubIdx, pubVars >>

\* the connection loop takes the next item of a subscription's stream and writes it
SendStreamed(c) ==
    /\ pc[c] = "sub_stream"
    /\ queue[c] # << >>
    /\ wire' = [wire EXCEPT ![c] = Append(@, Head(queue[c]))]
    /\ queue' = [queue EXCEPT ![c] = Tail(@)]
    /\ UNCHANGED << tlsVars, frameVars, mode, hooks, inbox, kvVars, pc, req, resp, trace, budget, topics, subs,
                    rxDropped, nextId, myId, targets, pubIdx, pubVars >>

\* the subscription's stream ends: the queue is drained and its sender is gone
StreamEnd(c) ==
    /\ pc[c] = "sub_stream"
    /\ queue[c] = << >>
    /\ \A id \in Ids : subs[B(c)][id] # c
    /\ pc' = [pc EXCEPT ![c] = "idle"]
    /\ UNCHANGED << tlsVars, frameVars, mode, hooks, inbox, kvVars, req, resp, trace, wire, budget, topicVars,
                    myId, targets, pubIdx, pubVars >>

\* the client of a subscription goes away: the connection task is dropped while it
\* waits on the stream, and with it the reader end of the queue
Disconnect(c) ==
    /\ pc[c] = "sub_stream"
    /\ pc' = [pc EXCEPT ![c] = "closed"]
    /\ rxDropped' = [rxDropped EXCEPT ![c] = TRUE]
    /\ UNCHANGED << tlsVars, frameVars, mode, hooks, inbox, kvVars, req, resp, trace, wire, budget, topics, subs,
                    queue, nextId, myId, targets, pubIdx, pubVars >>

\* requests written and not yet read, over all connections
Unread == Len(inbox["c1"]) + Len(inbox["c2"]) + Len(inbox["c3"])

\* a client writes a request to its connection, whatever the connection is doing
ClientSend(c, r) ==
    /\ mode = "conn"
    /\ Unread < budget
    /\ inbox' = [inbox EXCEPT ![c] = Append(@, r)]
    /\ UNCHANGED << tlsVars, frameVars, mode, hooks, kvVars, pc, req, resp, trace, wire, budget, topicVars,
                    myId, targets, pubIdx, pubVars >>

Next ==
    \/ \E c \in Active : \E r \in Requests(c) : ExecUnary(c, r)
    \/ \E c \in Active : \E r \in Requests(c) : ExecSubscribe(c, r)
    \/ \E c \in Active : SubInsertTopic(c)
    \/ \E c \in Active : SubInsertTable(c)
    \/ \E c \in Active : SubSendId(c)
    \/ \E c \in Active : \E r \in Requests(c) : ExecUnsubscribe(c, r)
    \/ \E c \in Active : \E r \in Requests(c) : ExecPublish(c, r)
    \/ \E c \in Active, id \in Ids : PubSend(c, id)
    \/ \E c \in Active : PubReturn(c)
    \/ \E c \in Active : SendOnce(c)
    \/ \E c \in Active : SendStreamed(c)
    \/ \E c \in Active : StreamEnd(c)
    \/ \E c \in Active : Disconnect(c)

\* the key-value workload: one connection, every kind of request
Spec == Init /\ [][Next]_vars

\* the pub/sub workload: several connections subscribe, publish and unsubscribe
SpecPubSub == InitPubSub /\ [][Next]_vars

NextConn ==
    \/ Next
    \/ \E c \in Active : \E r \in PipelinedRequests(c) : ClientSend(c, r)

\* the pipelining workload: two clients write requests ahead of the answers
SpecConn == InitConn /\ [][NextConn]_vars

\* the same under a fair scheduler: a connection task that can take a step does so
SpecConnFair == SpecConn /\ WF_vars(Next)

-----------------------------------------------------------------------------
(* Properties of the storage backend and of Service::execute, checked under Spec *)

\* the event of dispatch returning, in the trace of connection c's current request
DispatchEvent(c) ==
    LET i == CHOOSE i \in 1..Len(trace[c]) : trace[c][i].ev = "dispatch"
    IN  trace[c][i]

\* the events of a trace with a given name
EventsOf(tr, ev) == SelectSeq(tr, LAMBDA e : e.ev = ev)

\* C1: get(t, k) returns the value of the most recent set(t, k, v) not followed by a
\* del(t, k), and absent when there is none, whatever was done to other (table, key)
\* pairs; an HGET answered through execute carries that value with status 200, or 404.
C1_GetReturnsLatestSet ==
    /\ \A t \in Tables, k \in Keys : SledGet(StoreOf("c1"), t, k) = latest[<< t, k >>]
    /\ \A c \in Conns :
          (Started(c) /\ req[c].type = "Hget" /\ pc[c] = "once") =>
             LET want == latest[<< req[c].table, req[c].key >>]
             IN  IF want.some
                 THEN DispatchEvent(c).status = StatusOk /\ resp[c].values = << want.v >>
                 ELSE DispatchEvent(c).status = StatusNotFound

C3_DefaultIffStreaming ==
    \A c \in Conns :
        /\ pc[c] # "panicked"
        /\ Started(c) =>
              /\ (DispatchEvent(c).fn = "default") <=> (req[c].type \in StreamTypes)
              /\ (DispatchEvent(c).status = 0) <=> (req[c].type \in StreamTypes)
              /\ (EventsOf(trace[c], "dispatch_stream") # << >>)
                    <=> (req[c].type \in StreamTypes)
              /\ \A i \in 1..Len(trace[c]) :
                    trace[c][i].ev = "dispatch_stream" => trace[c][i].fn = req[c].type

\* a request without request_data has been answered 400 by the unary path
C3_Witness ==
    \E c \in Conns :
        /\ Started(c) /\ req[c].type = "None" /\ pc[c] = "idle"
        /\ DispatchEvent(c).status = StatusBadRequest
        /\ Len(wire[c]) = 1

\* C4: for a unary request execute fires on_received, then dispatch, then on_executed
\* (which sees the handler's response), then on_before_send, every hook in
\* registration order, and only then returns; its stream yields exactly one response
\* and ends.
C4_UnaryStagesInOrder ==
    \A c \in Conns :
        (Started(c) /\ req[c].type \notin StreamTypes) =>
            LET tr == trace[c]
                nR == Len(hooks.on_received)
                nE == Len(hooks.on_executed)
                nB == Len(hooks.on_before_send)
                n == nR + 1 + nE + nB
            IN  /\ pc[c] \in { "once", "idle" }
                /\ Len(tr) >= n
                /\ \A i \in 1..nR : tr[i] = Event("on_received", hooks.on_received[i], 0)
                /\ tr[nR + 1].ev = "dispatch" /\ tr[nR + 1].fn = "handled"
                /\ \A i \in 1..nE :
                      tr[nR + 1 + i] =
                          Event("on_executed", hooks.on_executed[i], tr[nR + 1].status)
                /\ \A i \in 1..nB :
                      /\ tr[nR + 1 + nE + i].ev = "on_before_send"
                      /\ tr[nR + 1 + nE + i].fn = hooks.on_before_send[i]
                /\ pc[c] = "once" => Len(tr) = n /\ wire[c] = << >>
                /\ pc[c] = "idle" =>
                      /\ Len(tr) = n + 1
                      /\ tr[n + 1] = Event("sent", "", resp[c].status)
                      /\ wire[c] = << resp[c] >>

\* an HSET has gone through all stages of a service with every kind of hook registered
C4_Witness ==
    \E c \in Conns :
        /\ Started(c) /\ req[c].type = "Hset" /\ pc[c] = "idle"
        /\ hooks = Hooks(<< "closure", "b" >>, << "c" >>, << "d" >>, << "e" >>)
        /\ Len(wire[c]) = 1
        /\ Len(trace[c]) = 6

\* the responses the streaming path produces
StreamedResponses(c) ==
    IF req[c].type = "Subscribe"
    THEN { IdMessage(myId[c]) } \cup { Payload(PublishData(n)) : n \in 1..pubCalled }
    ELSE { ResponseOk, FromKvError("NotFound") }

\* C5: for SUBSCRIBE, UNSUBSCRIBE and PUBLISH execute fires on_received and hands the
\* request to dispatch_stream; no on_executed and no on_before_send hook runs, and the
\* frames written are the streaming path's responses, untouched by the hooks.
C5_StreamingSkipsHooks ==
    \A c \in Conns :
        (Started(c) /\ req[c].type \in StreamTypes) =>
            LET nR == Len(hooks.on_received)
            IN  /\ Len(trace[c]) >= nR + 2
                /\ \A i \in 1..nR :
                      trace[c][i] = Event("on_received", hooks.on_received[i], 0)
                /\ trace[c][nR + 1] = Event("dispatch", "default", 0)
                /\ trace[c][nR + 2] = Event("dispatch_stream", req[c].type, 0)
                /\ EventsOf(trace[c], "on_executed") = << >>
                /\ EventsOf(trace[c], "on_before_send") = << >>
                /\ \A i \in 1..Len(wire[c]) : wire[c][i] \in StreamedResponses(c)

\* a subscriber of a service with an on_before_send hook has been sent a published payload
C5_Witness ==
    \E c \in Conns :
        /\ req[c].type = "Subscribe"
        /\ hooks.on_before_send # << >>
        /\ Len(wire[c]) >= 2
        /\ wire[c][2] = Payload(PublishData(1))

\* the status a response must carry after the registered on_before_send hooks:
\* "d" sets 201, "bump" adds one
StatusAfter(list, status) ==
    CASE list = << >> -> status
      [] list = << "d" >> -> StatusCreated
      [] list = << "d", "bump" >> -> StatusCreated + 1
      [] list = << "bump", "d" >> -> StatusCreated

\* C6: the response a unary request yields is the handler's response after every
\* registered on_before_send hook has changed it, once each and in registration order:
\* the status is the hooks' doing, message, values and pairs are the handler's.
C6_BeforeSendApplied ==
    [][ \A c \in Conns :
          /\ (pc[c] = "idle" /\ pc'[c] = "once" /\ req'[c].type \notin StreamTypes) =>
                LET handled == dispatch(req'[c], StoreOf(c)).res
                IN  resp'[c] =
                        [handled EXCEPT
                            !.status = StatusAfter(hooks.on_before_send, handled.status)]
          /\ (pc[c] = "once" /\ pc'[c] = "idle") => wire'[c] = << resp[c] >>
      ]_vars

\* with the hooks "d" then "bump" registered, an HSET has been answered with status 202
C6_Witness ==
    \E c \in Conns :
        /\ hooks.on_before_send = << "d", "bump" >>
        /\ req[c].type = "Hset" /\ pc[c] = "idle"
        /\ wire[c] = << Response(StatusCreated + 1, "", << DefaultValue >>, << >>) >>

\* C7: every registered on_after_send hook has fired, once and after the frame was
\* written, when the response of a unary request has been sent.
C7_AfterSendFired ==
    \A c \in Conns :
        (Started(c) /\ req[c].type \notin StreamTypes /\ pc[c] = "idle") =>
            /\ EventsOf(trace[c], "on_after_send")
                  = Notify(hooks.on_after_send, "on_after_send", 0)
            /\ \A i, j \in 1..Len(trace[c]) :
                  (trace[c][i].ev = "sent" /\ trace[c][j].ev = "on_after_send") => i < j

\* C18: an error becomes a response with status 404 for not-found, 400 for
\* invalid-command, which is what a request without request_data gets, and 500 for
\* every other kind, with the error's text as message and no values and no pairs; a
\* connection that has sent such a response reads its next request.
C18_ErrorResponses ==
    /\ \A kind \in ErrorKinds :
          FromKvError(kind) =
              Response(IF kind = "NotFound" THEN 404
                       ELSE IF kind = "InvalidCommand" THEN 400 ELSE 500,
                       to_string(kind), << >>, << >>)
    /\ dispatch(NoRequestData, EmptyDb).res =
          Response(400, to_string("InvalidCommand"), << >>, << >>)
    /\ \A c \in Conns :
          (Started(c) /\ DispatchEvent(c).status \in { 400, 404, 500 }) =>
              /\ pc[c] \in { "once", "idle" }
              /\ resp[c].message \in { to_string(kind) : kind \in ErrorKinds }
              /\ resp[c].values = << >> /\ resp[c].pairs = << >>
              /\ (pc[c] = "idle" /\ budget > 0) =>
                    /\ wire[c] = << resp[c] >>
                    /\ ENABLED ExecUnary(c, new_hget(<< "a" >>, << "c" >>))

\* a connection has answered an HGET of an absent key with 404 and can read on
C18_Witness ==
    \E c \in Conns :
        /\ req[c].type = "Hget" /\ pc[c] = "idle" /\ budget > 0
        /\ hooks.on_before_send = << >>
        /\ wire[c] = << Response(404, to_string("NotFound"), << >>, << >>) >>
        /\ ENABLED ExecUnary(c, new_hget(<< "a" >>, << "c" >>))

-----------------------------------------------------------------------------
(* Properties of the broadcaster, checked under SpecPubSub *)

\* the published payloads among the frames a subscriber has been sent, by the index
\* of the publish call
PayloadsRead(c) ==
    LET frames == SelectSeq(wire[c],
                            LAMBDA f : f.values # << >> /\ f.values[1].tag = "String")
    IN  [i \in 1..Len(frames) |-> frames[i].values[1].val]

\* C8: the payloads a subscriber reads are in the order in which publish was called,
\* also when several publishers publish concurrently.
C8_ReadInPublishOrder ==
    \A c \in Conns :
        req[c].type = "Subscribe" =>
            \A i, j \in 1..Len(PayloadsRead(c)) :
                i < j => PayloadsRead(c)[i] < PayloadsRead(c)[j]

\* C9: the first item a subscriber reads from its stream is the response that carries
\* its own subscription id, also when another task publishes to the topic while the
\* subscribe call runs.
C9_IdMessageFirst ==
    \A c \in Conns :
        (req[c].type = "Subscribe" /\ wire[c] # << >>) => wire[c][1] = IdMessage(myId[c])

\* the ids that are members of some topic's subscriber set
InTopicSets == UNION { topics[B("c1")][t] : t \in Topics }

\* C10: an id is a member of some topic's subscriber set if and only if it is a key
\* of the subscription table. Stated here for the states in which no subscribe call
\* stands between its two insertions; the claim, which speaks of every reachable
\* state, implies it.
C10_TopicSetsMatchTable ==
    (\A c \in Conns : pc[c] # "sub_table") => InTopicSets = Live(subs[B("c1")])

\* connection c reads an UNSUBSCRIBE in this step
UnsubscribeStep(c) ==
    CanRead(c) /\ pc'[c] = "once" /\ req'[c].type = "Unsubscribe"

\* C11: for a live subscription (t, id) the first unsubscribe(t, id) is answered OK,
\* takes id out of the topic's set and of the table and leaves the queue without a
\* sender, so that its reader sees the end of the sequence; an unsubscribe of an id
\* that is not in the table, as a second unsubscribe(t, id) is, is answered NOT_FOUND;
\* and no publish that starts after the first unsubscribe enqueues into that queue.
C11_UnsubscribeOnceThenGone ==
    [][ \A c \in Conns :
          /\ UnsubscribeStep(c) =>
                LET r == req'[c]
                    q == subs[B(c)][r.id]
                IN  /\ (q # NoQueue /\ r.id \in topics[B(c)][r.topic]) =>
                          /\ resp'[c] = ResponseOk
                          /\ r.id \notin topics'[B(c)][r.topic]
                          /\ \A id \in Ids : subs'[B(c)][id] # q
                          /\ ~Unsubscribe(topics'[B(c)], subs'[B(c)], r.topic, r.id).existed
                    /\ q = NoQueue => resp'[c] = FromKvError("NotFound")
          /\ \A q \in Conns :
                (pc[c] = "publishing" /\ targets'[c] # targets[c] /\ queue'[q] # queue[q])
                   => (unsubAt[q] = -1 \/ pubIdx[c] <= unsubAt[q])
      ]_vars

\* a subscription has been unsubscribed with OK, its stream has ended, and a publish
\* to its topic that started afterwards has returned
C11_Witness ==
    \E q, c \in Conns :
        /\ req[q].type = "Subscribe" /\ pc[q] = "idle" /\ unsubAt[q] >= 0
        /\ wire[q] = << IdMessage(myId[q]) >>
        /\ req[c].type = "Publish" /\ req[c].topic = req[q].topic
        /\ pubIdx[c] > unsubAt[q] /\ pubIdx[c] \in pubDone

\* C12: publish never waits for a subscriber. Each delivery attempt can be taken
\* whatever the state of the queue; it appends the payload when the queue has room and
\* leaves a full queue as it is, touching no other queue; the call returns once every
\* id it collected has been tried, and the publisher is sent a single OK.
C12_PublishNeverBlocks ==
    [][ \A c \in Conns :
          /\ pc[c] = "publishing" =>
                /\ \A id \in targets[c] : ENABLED PubSend(c, id)
                /\ targets[c] = {} => ENABLED PubReturn(c)
          /\ (pc[c] = "publishing" /\ targets'[c] # targets[c]) =>
                /\ pc'[c] = "publishing"
                /\ \E id \in targets[c] :
                      /\ targets'[c] = targets[c] \ {id}
                      /\ \A q \in Conns :
                            queue'[q] =
                                IF /\ q = subs[B(c)][id]
                                   /\ ~rxDropped[q]
                                   /\ Len(queue[q]) < Capacity
                                THEN Append(queue[q], Payload(req[c].data))
                                ELSE queue[q]
          /\ (pc[c] = "publishing" /\ pc'[c] # "publishing") =>
                targets[c] = {} /\ pc'[c] = "once" /\ resp'[c] = ResponseOk
          /\ (pc[c] = "once" /\ pc'[c] = "idle" /\ req[c].type = "Publish") =>
                wire'[c] = << ResponseOk >>
      ]_vars

\* a publish found one subscriber's queue full and dropped the payload for it, another
\* subscriber of the topic has been sent the payload, and the publisher has its OK
C12_Witness ==
    \E c, slow, fast \in Conns :
        /\ req[c].type = "Publish" /\ pc[c] = "idle" /\ wire[c] = << ResponseOk >>
        /\ << pubIdx[c], slow >> \in dropped
        /\ Payload(req[c].data) \notin { queue[slow][i] : i \in 1..Len(queue[slow]) }
        /\ wire[slow] = << >>
        /\ req[fast].type = "Subscribe"
        /\ wire[fast] = << IdMessage(myId[fast]), Payload(req[c].data) >>

\* C28: a PUBLISH to a topic without subscribers changes nothing and is answered
\* with a single OK: the call collects no id, so no delivery is attempted; the
\* steps of the call and of its answer leave the topic registry, the
\* subscription table, the id counter and every queue as they are
C28_PublishToNobody ==
    [][ \A c \in Conns :
          /\ (pc[c] = "idle" /\ pc'[c] = "publishing" /\ topics[B(c)][req'[c].topic] = {}) =>
                targets'[c] = {} /\ UNCHANGED topicVars
          /\ (pc[c] = "publishing" /\ targets[c] = {}) =>
                /\ \A id \in Ids : ~ENABLED PubSend(c, id)
                /\ ENABLED PubReturn(c)
                /\ pc'[c] # "publishing" =>
                      pc'[c] = "once" /\ resp'[c] = ResponseOk /\ UNCHANGED topicVars
          /\ (pc[c] = "once" /\ pc'[c] = "idle" /\ req[c].type = "Publish") =>
                wire'[c] = Append(wire[c], ResponseOk) /\ UNCHANGED topicVars
      ]_vars

\* a publisher has its OK for a topic that never had a subscriber, while the
\* only subscription ever made, on another topic, is open and was sent nothing
C28_Witness ==
    \E c, d \in Conns :
        /\ req[c].type = "Publish" /\ pc[c] = "idle" /\ wire[c] = << ResponseOk >>
        /\ req[d].type = "Subscribe" /\ req[d].topic # req[c].topic
        /\ pc[d] = "sub_stream" /\ myId[d] = 1 /\ nextId[B(c)] = 2
        /\ topics[B(c)][req[c].topic] = {}
        /\ topics[B(c)][req[d].topic] = { 1 }
        /\ wire[d] = << IdMessage(1) >> /\ queue[d] = << >>

\* connection c is inside a subscribe call, or reads the stream of a subscription
\* that the table still holds
HoldsId(c) ==
    \/ pc[c] \in { "sub_topic", "sub_table", "sub_id" }
    \/ pc[c] = "sub_stream" /\ subs[B(c)][myId[c]] = c

\* C13: subscription ids are unique, also after the counter has wrapped: two
\* subscribe calls that overlap, or whose subscriptions are live together, never
\* hold the same id.
C13_IdsUnique ==
    \A c, d \in Conns :
        (c # d /\ HoldsId(c) /\ HoldsId(d) /\ B(c) = B(d)) => myId[c] # myId[d]

\* C17: a delivery attempt that finds the queue closed, its consumer dropped, takes
\* the id out of every topic set and out of the table and goes on with the other ids
\* the publish collected: a live subscriber among them with room in its queue is
\* still enqueued the payload. From then on no entry of the table leads to the closed
\* queue, so that no later publish makes an attempt for it, and nothing is enqueued
\* into it.
C17_DeadSubscriberCleanedUp ==
    [][ \A c \in Conns :
          /\ (pc[c] = "publishing" /\ targets'[c] # targets[c]) =>
                \A id \in targets[c] \ targets'[c] :
                    LET q == subs[B(c)][id]
                    IN  /\ targets'[c] = targets[c] \ {id}
                        /\ pc'[c] = "publishing"
                        /\ (q # NoQueue /\ rxDropped[q]) =>
                              /\ \A t \in Topics : id \notin topics'[B(c)][t]
                              /\ subs'[B(c)][id] = NoQueue
                              /\ q \in cleaned'
                        /\ (q # NoQueue /\ ~rxDropped[q] /\ Len(queue[q]) < Capacity) =>
                              queue'[q] = Append(queue[q], Payload(req[c].data))
          /\ c \in cleaned' =>
                /\ \A b \in Refs, id \in Ids : subs'[b][id] # c
                /\ c \in cleaned => queue'[c] = queue[c]
                /\ myId[c] \notin UNION { topics'[B(c)][t] : t \in Topics }
      ]_vars

\* one publish has found the queue of a subscriber that went away closed and cleaned
\* it up, has enqueued its payload for a live subscriber of the topic, and has returned
C17_Witness ==
    \E c, dead, live \in Conns :
        /\ req[c].type = "Publish" /\ pc[c] = "idle" /\ pubCalled = 1
        /\ dead \in cleaned /\ pc[dead] = "closed"
        /\ req[live].type = "Subscribe" /\ req[live].topic = req[dead].topic
        /\ wire[live] = << IdMessage(myId[live]), Payload(req[c].data) >>

-----------------------------------------------------------------------------
(* Properties of the connection loop, checked under SpecConn *)

\* the response stream of connection c's current request has ended and everything it
\* yielded has been written
StreamDrained(c) ==
    \/ ~Started(c)
    \/ /\ req[c].type = "Subscribe"
       /\ pc[c] \notin { "sub_topic", "sub_table", "sub_id" }
       /\ queue[c] = << >>
       /\ \A id \in Ids : subs[B(c)][id] # c
    \/ /\ req[c].type # "Subscribe"
       /\ wire[c] = << resp[c] >>

\* C14: a connection dispatches its requests in the order in which they arrived, one
\* at a time: it takes the oldest unread request, and only when the response stream of
\* the previous request has ended and all its items have been written; the frames are
\* written in the order in which the stream yields them.
C14_OneRequestAtATime ==
    [][ \A c \in Conns :
          /\ Len(inbox'[c]) < Len(inbox[c]) =>
                /\ inbox'[c] = Tail(inbox[c])
                /\ req'[c] = Head(inbox[c])
                /\ StreamDrained(c)
          /\ (trace'[c] # trace[c] /\ budget' < budget) =>
                Len(inbox'[c]) < Len(inbox[c])
          /\ (Len(inbox'[c]) >= Len(inbox[c]) /\ wire'[c] # wire[c]) =>
                wire'[c] = Append(wire[c], IF pc[c] = "once" THEN resp[c]
                                           ELSE Head(queue[c]))
      ]_vars

\* a connection that streams a subscription has written the id message and a
\* published payload while a further request of its client waits unread
C14_Witness ==
    \E c \in Conns :
        /\ pc[c] = "sub_stream" /\ inbox[c] # << >>
        /\ wire[c] = << IdMessage(myId[c]), Payload(PublishData(1)) >>

\* connection c streams its open subscription and the next request of its client is
\* the UNSUBSCRIBE of that subscription
UnsubscribeWaits(c) ==
    /\ pc[c] = "sub_stream"
    /\ subs[B(c)][myId[c]] = c
    /\ inbox[c] # << >>
    /\ Head(inbox[c]) = new_unsubscribe(req[c].topic, myId[c])

\* connection c has answered the UNSUBSCRIBE of its own subscription with OK
UnsubscribeAnswered(c) ==
    /\ req[c].type = "Unsubscribe" /\ req[c].id = myId[c]
    /\ pc[c] = "idle"
    /\ wire[c] = << ResponseOk >>

OpenSubscriber(d, t) ==
    /\ pc[d] = "sub_stream" /\ req[d].topic = t
    /\ myId[d] \in topics[B(d)][t]
    /\ subs[B(d)][myId[d]] = d

\* C16: the handles of all connections, the service and its clones, work on one
\* storage and one broadcaster: an HGET through any handle is answered with the value
\* of the latest HSET through any handle, and a PUBLISH through any handle collects
\* the open subscriptions made through any handle and enqueues the payload for each
\* whose queue has room.
C16_ClonesShareState ==
    [][ \A c \in Conns :
          /\ (CanRead(c) /\ pc'[c] = "once" /\ req'[c].type = "Hget") =>
                LET want == latest[<< req'[c].table, req'[c].key >>]
                IN  resp'[c] = IF want.some THEN FromValue(want.v)
                               ELSE FromKvError("NotFound")
          /\ (CanRead(c) /\ pc'[c] = "publishing") =>
                \A d \in Conns :
                    OpenSubscriber(d, req'[c].topic) => myId[d] \in targets'[c]
          /\ (pc[c] = "publishing" /\ targets'[c] # targets[c]) =>
                \A d \in Conns :
                    (OpenSubscriber(d, req[c].topic) /\ myId[d] \notin targets'[c]
                        /\ myId[d] \in targets[c] /\ Len(queue[d]) < Capacity) =>
                            queue'[d] = Append(queue[d], Payload(req[c].data))
      ]_vars

\* a subscriber through the service's own handle has been sent the payload of a
\* PUBLISH, which only the clone's connection can have run, and the clone has answered
\* an HGET with the value that the HSET of the first connection stored
C16_Witness ==
    /\ req["c1"].type = "Subscribe"
    /\ wire["c1"] = << IdMessage(myId["c1"]), Payload(PublishData(1)) >>
    /\ req["c2"].type = "Hget" /\ pc["c2"] = "idle"
    /\ wire["c2"] = << FromValue(StringValue(1)) >>


-----------------------------------------------------------------------------
(* Frames: the wire format of spec section 4.2 and ProstStream (network/stream.rs) *)

\* the width of the frame header in bytes
LEN_LEN == 4
\* frames whose header announces more payload than this are rejected (16 MiB)
MAX_FRAME == 16777216

RECURSIVE Flatten(_)
\* the concatenation of a sequence of byte strings
Flatten(ss) == IF ss = << >> THEN << >> ELSE Head(ss) \o Flatten(Tail(ss))

Drop(s, n) == SubSeq(s, n + 1, Len(s))
Take(s, n) == SubSeq(s, 1, n)

\* protobuf's variable-length unsigned integer, for values below 2^14
Varint(n) == IF n < 128 THEN << n >> ELSE << (n % 128) + 128, n \div 128 >>

\* prost's encoding of a CommandResponse: default-valued fields take no bytes;
\* status is field 1, each element of values is a length-delimited field 3
EncodeMsg(m) ==
    (IF m.status = 0 THEN << >> ELSE << 1 >> \o Varint(m.status))
    \o Flatten([i \in 1..Len(m.values) |->
                    << 3, Len(EncodeValue(m.values[i])) >> \o EncodeValue(m.values[i])])

DecodeError == [ok |-> FALSE, msg |-> DefaultResponse]
Decoded(m) == [ok |-> TRUE, msg |-> m]

\* the bytes of one embedded Value are well formed
ValueBytesOk(data) == data = << >> \/ (Len(data) = 2 /\ data[1] \in 1..5)

RECURSIVE ParseFields(_, _)
\* prost's decoding: fields are read one after the other into the message
ParseFields(data, m) ==
    IF data = << >> THEN Decoded(m)
    ELSE IF Len(data) < 2 THEN DecodeError
    ELSE IF data[1] = 1
         THEN IF data[2] < 128
              THEN ParseFields(Drop(data, 2), [m EXCEPT !.status = data[2]])
              ELSE IF Len(data) < 3 \/ data[3] >= 128 THEN DecodeError
              ELSE ParseFields(Drop(data, 3),
                               [m EXCEPT !.status = (data[2] - 128) + 128 * data[3]])
    ELSE IF data[1] = 3
         THEN IF Len(data) < 2 + data[2] \/ ~ValueBytesOk(SubSeq(data, 3, 2 + data[2]))
              THEN DecodeError
              ELSE ParseFields(Drop(data, 2 + data[2]),
                               [m EXCEPT !.values =
                                    Append(@, DecodeValue(SubSeq(data, 3, 2 + data[2])))])
    ELSE DecodeError

DecodeMsg(data) == ParseFields(data, DefaultResponse)

\* the length of the run of equal bytes data starts with
RunLength(data) ==
    LET same == { n \in 1..Len(data) : \A i \in 1..n : data[i] = data[1] }
    IN  CHOOSE n \in same : \A k \in same : k <= n

RECURSIVE Compress(_)
\* the compressor, as a run-length code: each run becomes its length and its byte
Compress(data) ==
    IF data = << >> THEN << >>
    ELSE << RunLength(data), data[1] >> \o Compress(Drop(data, RunLength(data)))

RECURSIVE Decompress(_)
Decompress(data) ==
    IF data = << >> THEN << >>
    ELSE [i \in 1..data[1] |-> data[2]] \o Decompress(Drop(data, 2))

\* a compressed payload is a sequence of whole runs
CompressedOk(data) == Len(data) % 2 = 0 /\ \A i \in 1..Len(data) : i % 2 = 1 => data[i] >= 1

\* the header: 4 bytes, big-endian; the high bit is the compression flag CF and
\* the low 31 bits are LEN
EncodeHeader(cf, len) ==
    << (cf * 128) + ((len \div 16777216) % 128), (len \div 65536) % 256,
       (len \div 256) % 256, len % 256 >>

HeaderLen(h) == (h[1] % 128) * 16777216 + h[2] * 65536 + h[3] * 256 + h[4]
HeaderCompressed(h) == h[1] >= 128

\* encode_frame without the compression flag
encode_frame_NoFlag(m) ==
    LET payload == EncodeMsg(m)
    IN  IF Len(payload) > CompressionLimit
        THEN EncodeHeader(0, Len(Compress(payload))) \o Compress(payload)
        ELSE EncodeHeader(0, Len(payload)) \o payload

\* FrameCoder::encode_frame: the bytes appended to the buffer for message m
encode_frame(m) ==
    LET payload == EncodeMsg(m)
    IN  IF Len(payload) > CompressionLimit
        THEN EncodeHeader(1, Len(Compress(payload))) \o Compress(payload)
        ELSE EncodeHeader(0, Len(payload)) \o payload

\* the items of the inbound sequence
ItemOk(m) == [kind |-> "ok", msg |-> m]
ItemErr == [kind |-> "err", msg |-> DefaultResponse]
ItemNone == [kind |-> "none", msg |-> DefaultResponse]

\* decode_frame leaving the payload in the buffer when it cannot be decoded
decode_frame_KeepsOnError(buf) ==
    LET h == Take(buf, LEN_LEN)
        len == HeaderLen(h)
        payload == SubSeq(buf, LEN_LEN + 1, LEN_LEN + len)
        data == IF HeaderCompressed(h) THEN Decompress(payload) ELSE payload
        good == (HeaderCompressed(h) => CompressedOk(payload)) /\ DecodeMsg(data).ok
    IN  [item |-> IF good THEN ItemOk(DecodeMsg(data).msg) ELSE ItemErr,
         rest |-> IF good THEN Drop(buf, LEN_LEN + len) ELSE Drop(buf, LEN_LEN)]

\* FrameCoder::decode_frame: reads one whole frame off the front of buf; returns
\* the item and what is left of buf
decode_frame(buf) ==
    LET h == Take(buf, LEN_LEN)
        len == HeaderLen(h)
        payload == SubSeq(buf, LEN_LEN + 1, LEN_LEN + len)
        data == IF HeaderCompressed(h) THEN Decompress(payload) ELSE payload
        good == HeaderCompressed(h) => CompressedOk(payload)
    IN  [item |-> IF good /\ DecodeMsg(data).ok THEN ItemOk(DecodeMsg(data).msg)
                  ELSE ItemErr,
         rest |-> Drop(buf, LEN_LEN + len)]

\* read_frame polled once with an empty buffer on a stream holding the bytes
\* avail: it takes the 4 header bytes, then LEN payload bytes; status is "ok"
\* with the whole frame in buf, "pending" when the stream ran out of bytes, or
\* "err"; taken is the number of bytes it has read off the stream by then
read_frame(avail, eof) ==
    IF Len(avail) < LEN_LEN
    THEN [status |-> IF eof THEN "err" ELSE "pending", taken |-> Len(avail), buf |-> << >>]
    ELSE IF HeaderLen(Take(avail, LEN_LEN)) > MAX_FRAME
    THEN [status |-> "err", taken |-> LEN_LEN, buf |-> << >>]
    ELSE IF Len(avail) < LEN_LEN + HeaderLen(Take(avail, LEN_LEN))
    THEN [status |-> IF eof THEN "err" ELSE "pending", taken |-> Len(avail), buf |-> << >>]
    ELSE [status |-> "ok", taken |-> LEN_LEN + HeaderLen(Take(avail, LEN_LEN)),
          buf |-> Take(avail, LEN_LEN + HeaderLen(Take(avail, LEN_LEN)))]

\* the messages sent through the stream: an empty one, a short one and one long
\* enough to be compressed
FrameMessages ==
    { DefaultResponse, ResponseOk, FromValues(<< StringValue(1), StringValue(1) >>) }

\* start_send without the frame around the message
start_send_Raw(wb, item) == wb \o EncodeMsg(item)

\* Sink::start_send: the frame of the item is appended to the write buffer
start_send(wb, item) == wb \o encode_frame(item)

StartSend(item) ==
    /\ mode = "frame"
    /\ ~closing
    /\ Len(posted) < MaxFrames
    /\ wbuf' = start_send(wbuf, item)
    /\ posted' = Append(posted, item)
    /\ UNCHANGED << tlsVars, svcVars, written, rbuf, pipe, outBytes, closed, items, early, polled, closing >>

\* a poll_flush that is ready whatever is left to write
FlushReady_Always(wb, w) == TRUE

\* poll_flush: its loop is over, `written == wbuf.len()`
FlushReady(wb, w) == w = Len(wb)

\* poll_flush offering the whole buffer to the stream on every round
Remaining_Whole(wb, w) == wb

\* poll_flush: `&wbuf[written..]`, the part of the buffer offered to the stream
Remaining(wb, w) == Drop(wb, w)

\* Sink::poll_flush, one round of its loop: the stream accepts n of the bytes
\* of wbuf not yet written
PollWrite(n) ==
    /\ mode = "frame"
    /\ ~closing
    /\ written + n <= Len(wbuf)
    /\ pipe' = pipe \o Take(Remaining(wbuf, written), n)
    /\ outBytes' = outBytes \o Take(Remaining(wbuf, written), n)
    /\ written' = written + n
    /\ UNCHANGED << tlsVars, svcVars, wbuf, rbuf, closed, posted, items, early, polled, closing >>

\* Sink::poll_flush, after its loop: everything is written, the buffer is reset
FlushDone ==
    /\ mode = "frame"
    /\ ~closing
    /\ wbuf # << >>
    /\ FlushReady(wbuf, written)
    /\ wbuf' = << >>
    /\ written' = 0
    /\ UNCHANGED << tlsVars, svcVars, rbuf, pipe, outBytes, closed, posted, items, early, polled, closing >>

\* Sink::poll_close, one call: it runs poll_flush, in which the stream accepts
\* n more bytes; if that leaves bytes unwritten the call returns Pending, else
\* the buffer is reset and the stream is shut down
PollClose(n) ==
    /\ mode = "frame"
    /\ ~closed
    /\ written + n <= Len(wbuf)
    /\ closing' = TRUE
    /\ pipe' = pipe \o Take(Remaining(wbuf, written), n)
    /\ outBytes' = outBytes \o Take(Remaining(wbuf, written), n)
    /\ IF FlushReady(wbuf, written + n)
       THEN wbuf' = << >> /\ written' = 0 /\ closed' = TRUE
       ELSE written' = written + n /\ UNCHANGED << wbuf, closed >>
    /\ UNCHANGED << tlsVars, svcVars, rbuf, posted, items, early, polled >>

\* a message is sent and not yet read, and every send so far has been flushed, as
\* after `send(m).await`
SendComplete == wbuf = << >> /\ Len(items) < Len(posted)

\* Stream::poll_next, one call: a new read_frame runs on a new buffer taken off
\* the (empty) read buffer; when it is not ready the call returns Pending and
\* the buffer goes with it; an error is yielded as an item; a whole frame is
\* put back into the read buffer and decoded from there
PollNext ==
    /\ mode = "frame"
    /\ rbuf = << >>
    /\ Len(items) <= MaxFrames
    /\ LET r == read_frame(pipe, closed)
       IN  /\ pipe' = Drop(pipe, r.taken)
           /\ CASE r.status = "pending" -> /\ UNCHANGED << rbuf, items >>
                                           /\ polled' = polled \cup { "pending" }
                [] r.status = "err" -> /\ items' = Append(items, ItemErr)
                                       /\ polled' = polled \cup { "read_err" }
                                       /\ UNCHANGED rbuf
                [] r.status = "ok" -> /\ items' = Append(items, decode_frame(rbuf \o r.buf).item)
                                      /\ rbuf' = decode_frame(rbuf \o r.buf).rest
                                      /\ polled' = polled \cup
                                            { IF decode_frame(rbuf \o r.buf).item = ItemErr
                                              THEN "decode_err" ELSE "ok" }
    /\ early' = (early \/ ~SendComplete)
    /\ UNCHANGED << tlsVars, svcVars, wbuf, written, outBytes, closed, posted, closing >>

InitFrame ==
    /\ InitCommon
    /\ NoTls
    /\ mode = "frame"
    /\ hooks = Hooks(<< >>, << >>, << >>, << >>)
    /\ budget = 0

NextFrame ==
    \/ \E item \in FrameMessages : StartSend(item)
    \/ \E n \in 1..(LEN_LEN + 1) : PollWrite(n)
    \/ FlushDone
    \/ \E n \in 0..(LEN_LEN + 1) : PollClose(n)
    \/ PollNext

\* the frame workload: one side sends messages, the other reads the stream
SpecFrame == InitFrame /\ [][NextFrame]_vars

\* a whole frame whose payload is not an encoded message
BadFrame == EncodeHeader(0, 1) \o << 9 >>

\* a peer that is not a ProstStream writes a frame that cannot be decoded; it
\* does so once, as the first thing on the stream
PeerWritesBad ==
    /\ mode = "frame"
    /\ posted = << >> /\ pipe = << >> /\ items = << >> /\ polled = {}
    /\ pipe' = BadFrame
    /\ UNCHANGED << tlsVars, svcVars, wbuf, written, rbuf, outBytes, closed, posted, items, early, polled, closing >>

NextFrameBad ==
    \/ NextFrame
    \/ PeerWritesBad

\* the frame workload with a peer that may start with an undecodable frame
SpecFrameBad == InitFrame /\ [][NextFrameBad]_vars

\* C19: a message sent through a ProstStream and then read from the same byte
\* stream comes back as Ok of the same message, compressed or not: when every
\* read so far came after a complete send, a read that comes after a complete
\* send yields Ok of the oldest message not yet read; and decoding the frame of
\* a message gives the message back
C19_RoundTrip ==
    [][ /\ (~early /\ SendComplete /\ PollNext)
              => items' = Append(items, ItemOk(posted[Len(items) + 1]))
        /\ \A i \in 1..Len(posted) : decode_frame(encode_frame(posted[i])).item = ItemOk(posted[i])
      ]_vars

\* both paths happen: a short message and a compressed one came back
C19_Witness ==
    /\ items = << ItemOk(ResponseOk), ItemOk(FromValues(<< StringValue(1), StringValue(1) >>)) >>
    /\ posted = << ResponseOk, FromValues(<< StringValue(1), StringValue(1) >>) >>
    /\ HeaderCompressed(encode_frame(posted[2]))
    /\ ~HeaderCompressed(encode_frame(posted[1]))
    /\ ~early

\* the frames of a sequence of messages, one after the other
FramesOf(ms) == Flatten([i \in 1..Len(ms) |-> encode_frame(ms[i])])

\* the bytes the sender has not yet written to the stream
Unwritten == SubSeq(wbuf, written + 1, Len(wbuf))

\* the frames of the messages yielded so far
YieldedFrames == FramesOf(SubSeq(posted, 1, Len(items)))

\* C20: the inbound sequence yields exactly one item per complete frame, in
\* order, however the bytes are split and however often the read suspends, and
\* ends with None when the stream is closed: the items so far are Ok of the
\* messages sent, the item after the last frame of a closed stream is None,
\* and every byte sent is in a yielded frame, in the read buffer, in the stream
\* or still to be written
C20_OneItemPerFrame ==
    /\ \A i \in 1..Len(items) :
          items[i] = IF i <= Len(posted) THEN ItemOk(posted[i]) ELSE ItemNone
    /\ Len(items) <= Len(posted) => FramesOf(posted) = YieldedFrames \o rbuf \o pipe \o Unwritten

\* C21: at all times 0 <= written <= wbuf.len(); the bytes the stream has
\* accepted, followed by the bytes still to be written, are the frames of the
\* messages sent, in send order, each byte once; a completed flush leaves wbuf
\* empty and written 0, and then the stream has accepted exactly those frames
C21_FlushWritesEachByteOnce ==
    /\ [](written \in 0..Len(wbuf) /\ outBytes \o Unwritten = FramesOf(posted))
    /\ [][FlushDone => (wbuf' = << >> /\ written' = 0 /\ outBytes' = FramesOf(posted'))]_vars

\* the frames of two messages have been flushed completely, which takes
\* several partial writes
C21_Witness ==
    /\ wbuf = << >> /\ written = 0
    /\ Len(posted) = 2
    /\ outBytes = encode_frame(posted[1]) \o encode_frame(posted[2])
    /\ Len(outBytes) > 2 * (LEN_LEN + 1)

\* C23: the read buffer is empty whenever poll_next can be called, so its
\* assertion holds on every call: after a decoded frame, after Pending, after
\* a read error and after a frame that could not be decoded
C23_ReadBufferEmpty == rbuf = << >>

\* calls of poll_next have ended in each of the four ways, and one more call
\* has been made after the undecodable frame
C23_Witness ==
    /\ polled = { "ok", "pending", "read_err", "decode_err" }
    /\ items[1] = ItemErr
    /\ Len(items) = 3
    /\ rbuf = << >>

\* C24: the stream is shut down only when every byte of the write buffer has
\* been written: in the step that shuts it down and ever after, written equals
\* the length of wbuf, nothing is left to write and the stream has accepted the
\* frames of all messages sent
C24_ShutdownAfterFlush ==
    closed => (written = Len(wbuf) /\ Unwritten = << >> /\ outBytes = FramesOf(posted))

\* a call of poll_close has returned Pending in the middle of a frame, and the
\* stream is not shut down
C24_Witness ==
    /\ closing /\ ~closed
    /\ written > 0 /\ written < Len(wbuf)
    /\ Len(posted) = 2

-----------------------------------------------------------------------------
(* Further properties of the sled backend, checked under Spec *)

\* what get and contains answer for every logical (table, key) of a store
Answers(db) ==
    [tk \in Tables \X Keys |->
        << SledGet(db, tk[1], tk[2]), SledContains(db, tk[1], tk[2]) >>]

\* C26: distinct logical (table, key) pairs never alias: an HSET or HDEL on
\* (t1, k1) leaves what get and contains answer for every other pair (t2, k2)
\* as it was, also when a name contains the separator
C26_NoAliasing ==
    [][ \A c \in Conns :
          (pc[c] = "idle" /\ pc'[c] = "once" /\ req'[c].type \in { "Hset", "Hdel" }) =>
             \A tk \in Tables \X Keys :
                tk # << req'[c].table, req'[c].key >> =>
                   Answers(StoreOf(c)')[tk] = Answers(StoreOf(c))[tk]
      ]_vars

\* the pairs of a table according to the sets and dels made so far
LogicalPairs(table) ==
    { Kvpair(k, latest[<< table, k >>].v) : k \in { x \in Keys : latest[<< table, x >>].some } }

\* C27: get_all(table) holds exactly one pair for each key currently set in the
\* table, with the logical key passed to set and the latest value, and no pair
\* of another table
C27_GetAllExact ==
    \A t \in Tables :
       LET all == SledGetAll(StoreOf("c1"), t)
       IN  /\ { all[i] : i \in 1..Len(all) } = LogicalPairs(t)
           /\ Len(all) = Cardinality(LogicalPairs(t))

-----------------------------------------------------------------------------
(* The accept loop of server.rs, with the TLS handshake of each connection *)

\* main, line 15: the acceptor is built; a key file without a key ends main
AcceptorNew ==
    /\ mode = "tls"
    /\ mainPc = "new"
    /\ keyOut' = load_key(keyFile)
    /\ mainPc' = IF load_key(keyFile).ok THEN "listen" ELSE "exited"
    /\ UNCHANGED << svcVars, frameVars, keyFile, srvClientCa, cur, cli >>

\* a client opens a TCP connection and starts the handshake; a stalling client
\* sends nothing after its first message
ClientConnect(k, identity, domain, stalls) ==
    /\ mode = "tls"
    /\ cli[k].st = "idle"
    /\ cli' = [cli EXCEPT ![k] = [@ EXCEPT !.st = "connecting", !.identity = identity,
                                           !.domain = domain, !.stalls = stalls]]
    /\ UNCHANGED << svcVars, frameVars, keyFile, srvClientCa, keyOut, mainPc, cur >>

\* main, lines 21-23: listener.accept() returns a connection and tls.accept is
\* awaited in the loop itself; the server sends its certificate
Accept(k) ==
    /\ mode = "tls"
    /\ mainPc = "listen"
    /\ cli[k].st = "connecting"
    /\ mainPc' = "handshake"
    /\ cur' = k
    /\ cli' = [cli EXCEPT ![k].st = "flight"]
    /\ UNCHANGED << svcVars, frameVars, keyFile, srvClientCa, keyOut >>

\* TlsClientConnector::connect: the client checks the server's certificate
\* against the name it expects; on a match it sends its own certificate, if it
\* has one, and connect returns the stream
ClientFinish(k) ==
    /\ mode = "tls"
    /\ cli[k].st = "flight"
    /\ ~cli[k].stalls
    /\ cli' = [cli EXCEPT ![k] =
                 IF @.domain = ServerDomain
                 THEN [@ EXCEPT !.st = "finished", !.connect = "ok"]
                 ELSE [@ EXCEPT !.st = "aborted", !.connect = "err"]]
    /\ UNCHANGED << svcVars, frameVars, keyFile, srvClientCa, keyOut, mainPc, cur >>

\* main, lines 23-25: tls.accept returns; on Ok the connection gets its own
\* task, on Err the `?` returns the error from main
ServerFinish ==
    /\ mode = "tls"
    /\ mainPc = "handshake"
    /\ cli[cur].st \in { "finished", "aborted" }
    /\ IF cli[cur].st = "finished" /\ VerifyClient(ClientAuth(srvClientCa), cli[cur].identity)
       THEN /\ cli' = [cli EXCEPT ![cur] = [@ EXCEPT !.st = "served", !.accept = "ok"]]
            /\ mainPc' = "listen"
       ELSE /\ cli' = [cli EXCEPT ![cur] = [@ EXCEPT !.st = "rejected", !.accept = "err"]]
            /\ mainPc' = "exited"
    /\ UNCHANGED << svcVars, frameVars, keyFile, srvClientCa, keyOut, cur >>

\* the first read of a client whose connect returned a stream: it fails when
\* the server rejected the handshake or is gone
ClientRead(k) ==
    /\ mode = "tls"
    /\ cli[k].connect = "ok"
    /\ cli[k].st \in { "served", "rejected" }
    /\ cli[k].read = "none"
    /\ cli' = [cli EXCEPT ![k].read =
                 IF cli[k].st = "served" /\ mainPc # "exited" THEN "ok" ELSE "err"]
    /\ UNCHANGED << svcVars, frameVars, keyFile, srvClientCa, keyOut, mainPc, cur >>

\* a frame or transport error in the task of a connection ends that task
TaskFails(k) ==
    /\ mode = "tls"
    /\ cli[k].st = "served"
    /\ cli' = [cli EXCEPT ![k].st = "closed"]
    /\ UNCHANGED << svcVars, frameVars, keyFile, srvClientCa, keyOut, mainPc, cur >>

InitTls ==
    /\ InitCommon
    /\ keyFile \in KeyFiles
    /\ srvClientCa \in BOOLEAN
    /\ mode = "tls"
    /\ hooks = Hooks(<< >>, << >>, << >>, << >>)
    /\ budget = 0

NextTls ==
    \/ AcceptorNew
    \/ \E k \in Clients : \E identity \in Identities : \E domain \in Domains :
          \E stalls \in BOOLEAN : ClientConnect(k, identity, domain, stalls)
    \/ \E k \in Clients : Accept(k)
    \/ \E k \in Clients : ClientFinish(k)
    \/ ServerFinish
    \/ \E k \in Clients : ClientRead(k)
    \/ \E k \in Clients : TaskFails(k)

\* the TLS workload: a server built from a key file, and two clients
SpecTls == InitTls /\ [][NextTls]_vars

\* a key of the file that load_key can return
Usable(kind) == kind \in { "pkcs8", "rsa" }

\* C29: load_key returns the first private key of the file: the first PKCS#8
\* key if there is one, else the first RSA key, else the certificate-parse
\* error; the key it returns is never preceded in the file by another usable key
C29_FirstKey ==
    mainPc # "new" =>
       /\ keyOut.ok <=> \E i \in 1..Len(keyFile) : Usable(keyFile[i])
       /\ keyOut.ok =>
             /\ keyFile[keyOut.pos] = keyOut.kind
             /\ SectionsOf(keyFile, "pkcs8") # {} =>
                   keyOut = Key("pkcs8", First(SectionsOf(keyFile, "pkcs8")))
             /\ SectionsOf(keyFile, "pkcs8") = {} =>
                   keyOut = Key("rsa", First(SectionsOf(keyFile, "rsa")))
             /\ \A i \in 1..(keyOut.pos - 1) : ~Usable(keyFile[i])

\* C22: a server built with a client CA requires a client certificate. A
\* client without identity never has a stream the server accepted: its
\* handshake or its first read fails; for a client with an identity signed by
\* that CA and the right server name, connect, accept and the first read from
\* the running server succeed; a client expecting another server name fails
\* in connect
C22_ClientCertRequired ==
    \A k \in Clients :
       /\ (srvClientCa /\ cli[k].identity = "none") =>
             cli[k].accept # "ok" /\ cli[k].read # "ok" /\ cli[k].st # "served"
       /\ (srvClientCa /\ cli[k].identity = "signed" /\ cli[k].domain = ServerDomain) =>
             /\ cli[k].connect # "err" /\ cli[k].accept # "err"
             /\ (cli[k].read = "err" => mainPc = "exited")
       /\ cli[k].domain # ServerDomain => cli[k].connect # "ok" /\ cli[k].accept # "ok"

\* with a client CA on the server, a client without identity got a stream
\* from connect and its first read failed, a client with a signed identity
\* has read from its stream
C22_Witness ==
    /\ srvClientCa
    /\ cli["k1"].identity = "signed" /\ cli["k1"].connect = "ok"
    /\ cli["k1"].accept = "ok" /\ cli["k1"].read = "ok"
    /\ cli["k2"].identity = "none" /\ cli["k2"].connect = "ok"
    /\ cli["k2"].accept = "err" /\ cli["k2"].read = "err"

\* C25: a failure that concerns one client ends or delays only that client's
\* connection: main leaves its loop only if it could not start, and it is
\* never held by a stalled handshake while another client waits to be accepted
C25_FailureIsolated ==
    /\ mainPc = "exited" => ~keyOut.ok
    /\ ~ (/\ mainPc = "handshake" /\ cli[cur].stalls
          /\ \E k \in Clients \ { cur } : cli[k].st = "connecting")

=============================================================================
